---------------------------- MODULE Spec2Model ----------------------------
(***************************************************************************)
(* The authentication session manager of fan-club-front (AuthProvider in   *)
(* src/unnamed/part_000): the session (token, user) held in React state,   *)
(* its two localStorage slots, the persistence effects, and the login /    *)
(* signup / logout operations with their candidate-endpoint loops.         *)
(*                                                                         *)
(* JavaScript values are records [k, s]: k is the kind ("undef", "null",   *)
(* "str", "num", "bool", "obj", "arr") and s the payload as text.  An      *)
(* "obj" value Obj(n) is the object {username: n}; an "arr" value Arr(x)   *)
(* is the one-element array [x].                                           *)
(***************************************************************************)
EXTENDS Naturals, Sequences, FiniteSets

VARIABLES token, user, store, mode, pendT, pendU, calls, origin, hist,
          form, msgs

vars == <<token, user, store, mode, pendT, pendU, calls, origin, hist, form, msgs>>

---------------------------------------------------------------------------
(* JavaScript values and the conversions the code applies to them *)

JV(k, s) == [k |-> k, s |-> s]
Undef == JV("undef", "")
Null == JV("null", "")
Str(s) == JV("str", s)
Num(s) == JV("num", s)
False == JV("bool", "false")
Obj(n) == JV("obj", n)
Arr(x) == JV("arr", x)

\* x ?? y : only null and undefined fall through
Nullish(v) == v.k \in {"undef", "null"}
Coalesce(a, b) == IF Nullish(a) THEN b ELSE a

\* if (x) : JavaScript truthiness
Truthy(v) ==
  CASE v.k \in {"undef", "null"} -> FALSE
    [] v.k = "str" -> v.s # ""
    [] v.k = "num" -> v.s # "0"
    [] v.k = "bool" -> v.s = "true"
    [] OTHER -> TRUE

\* String(x), also the coercion localStorage.setItem applies to its value
JsString(v) ==
  CASE v.k = "undef" -> "undefined"
    [] v.k = "null" -> "null"
    [] v.k = "obj" -> "[object Object]"
    [] OTHER -> v.s

\* JSON.stringify(x) of a JSON value
Stringify(v) ==
  CASE v.k = "null" -> "null"
    [] v.k = "str" -> "\"" \o v.s \o "\""
    [] v.k = "obj" -> "{\"username\":\"" \o v.s \o "\"}"
    [] v.k = "arr" -> "[\"" \o v.s \o "\"]"
    [] OTHER -> v.s

\* the JSON values JSON.parse can return here
JsonValues ==
  {Null, False, Num("0"), Num("7"), Str(""), Str("alice")}
    \cup {Obj(n) : n \in {"alice", "bob", "carol"}}

\* JSON.parse(text): the value whose JSON text it is; a SyntaxError otherwise
ParseThrows(text) == \A v \in JsonValues : Stringify(v) # text
Parse(text) == CHOOSE v \in JsonValues : Stringify(v) = text

---------------------------------------------------------------------------
(* What one fetch can settle with.  kind "neterr": fetch rejects with an   *)
(* error whose message is msg.  kind "http": a response with that status;  *)
(* json is the outcome of res.json() ("throw": it rejects with message     *)
(* msg, "null": the body is the JSON null, "obj": an object with the       *)
(* listed fields, Undef marking a field the object lacks); text is the     *)
(* outcome of a later res.text() (Undef: it rejects).                      *)

Resp(kind, status, json, fields, text, msg) ==
  [kind |-> kind, status |-> status, json |-> json,
   access |-> fields[1], token |-> fields[2], auth_token |-> fields[3],
   user |-> fields[4], username |-> fields[5],
   detail |-> fields[6], nfe |-> fields[7],
   text |-> text, msg |-> msg]

NoFields == <<Undef, Undef, Undef, Undef, Undef, Undef, Undef>>

NetErr == Resp("neterr", "0", "throw", NoFields, Undef, "Failed to fetch")
NotFound == Resp("http", "404", "throw", NoFields, Str("Not Found"), "Unexpected token")
ErrText(json, text) == Resp("http", "500", json, NoFields, text, "Unexpected token")
ErrObj(detail, nfe) ==
  Resp("http", "400", "obj", <<Undef, Undef, Undef, Undef, Undef, detail, nfe>>,
       Undef, "")
OkBad(json) == Resp("http", "200", json, NoFields, Undef, "Unexpected end of JSON input")
OkObj(a, tk, at, us, un) ==
  Resp("http", "200", "obj", <<a, tk, at, us, un, Undef, Undef>>, Undef, "")

TextOutcomes == {Undef, Str(""), Str("Server Error")}
DetailVals == {Undef, Str(""), Str("invalid credentials")}
NfeVals == {Undef, Arr("bad")}
AccessVals == {Undef, Null, Str(""), Str("abc123"), Num("7")}
TokenVals == {Undef, Str("tok2")}
AuthTokenVals == {Undef, Str("tok3")}
UserVals == {Undef, Null, False, Obj("alice")}
UsernameVals == {Undef, Str(""), Str("bob")}

\* every way a candidate can fail
FailResponses ==
  {NetErr, NotFound, OkBad("throw"), OkBad("null"), ErrText("null", Str("Server Error"))}
    \cup {ErrText("throw", t) : t \in TextOutcomes}
    \cup {ErrObj(d, n) : d \in DetailVals, n \in NfeVals}

\* every success body
OkResponses ==
  {OkObj(a, tk, at, us, un) :
     a \in AccessVals, tk \in TokenVals, at \in AuthTokenVals,
     us \in UserVals, un \in UsernameVals}

\* res.ok
Ok(resp) == resp.status = "200"

\* the messages of the TypeErrors the runtime raises, in the wording of the
\* runtime the code is run on here (V8 / node); other engines word them
\* differently.  data.access on a null body, and res.text() on a body that
\* res.json() has read
NullReadMessage == "Cannot read properties of null (reading 'access')"
BodyUsedMessage == "Body is unusable: Body has already been read"

\* JSON.stringify(j) of an error body j (its fields in document order)
StringifyBody(resp) ==
  LET d == IF resp.detail = Undef THEN ""
           ELSE "\"detail\":" \o Stringify(resp.detail)
      n == IF resp.nfe = Undef THEN ""
           ELSE "\"non_field_errors\":" \o Stringify(resp.nfe)
      sep == IF d # "" /\ n # "" THEN "," ELSE ""
  IN  "{" \o d \o sep \o n \o "}"

---------------------------------------------------------------------------
(* login and signup: one pass of the candidate loop, from the settling of  *)
(* fetch(endpoint) to `continue`, `return` or the end of the catch block.  *)
(* The result says whether the pass committed (done, with t and u the      *)
(* arguments of setToken and setUser) and gives lastError after the pass.  *)

Failed(lastError) == [done |-> FALSE, lastError |-> lastError, t |-> Null, u |-> Null]
Committed(lastError, t, u) == [done |-> TRUE, lastError |-> lastError, t |-> t, u |-> u]

\* mutant of ExtractToken: the fields are read in another order
ExtractTokenLastFirst(resp) ==
  Coalesce(resp.auth_token, Coalesce(resp.token, Coalesce(resp.access, Null)))

\* data.access ?? data.token ?? data.auth_token ?? null
ExtractToken(resp) ==
  Coalesce(resp.access, Coalesce(resp.token, Coalesce(resp.auth_token, Null)))

\* mutant of ExtractUser: the response's username is not looked at
ExtractUserNoUsername(resp) == Coalesce(resp.user, Null)

\* data.user ?? (data.username ? { username: data.username } : null)
ExtractUser(resp) ==
  Coalesce(resp.user, IF Truthy(resp.username) THEN Obj(resp.username.s) ELSE Null)

\* u ?? { username: creds.username }
CommitUser(u, username) == Coalesce(u, Obj(username))

\* login, the non-404 error branch: lastError after it
LoginErrorMessage(resp, lastError) ==
  IF resp.json = "obj"
    THEN IF Truthy(resp.detail) THEN Str(JsString(resp.detail))
         ELSE IF Truthy(resp.nfe) THEN Str(Stringify(resp.nfe))
         ELSE Str(StringifyBody(resp))
    ELSE IF resp.text.k = "str" /\ resp.text.s # "" THEN resp.text
         ELSE lastError

LoginAttempt(resp, endpoint, lastError, username) ==
  IF resp.kind = "neterr" THEN Failed(Str(resp.msg))
  ELSE IF ~Ok(resp)
    THEN IF resp.status = "404" THEN Failed(Str("Not found: " \o endpoint))
         ELSE Failed(LoginErrorMessage(resp, lastError))
  ELSE IF resp.json = "throw" THEN Failed(Str(resp.msg))
  ELSE IF resp.json = "null" THEN Failed(Str(NullReadMessage))
  ELSE Committed(lastError, ExtractToken(resp),
                 CommitUser(ExtractUser(resp), username))

\* signup, the non-404 error branch: lastError after it
SignupErrorMessage(resp, lastError) ==
  IF resp.json = "obj"
    THEN IF Truthy(resp.detail) THEN Str(JsString(resp.detail))
         ELSE Str(StringifyBody(resp))
    ELSE IF resp.text.k # "str" THEN Str(BodyUsedMessage)
         ELSE IF resp.text.s # "" THEN resp.text
         ELSE Str("HTTP " \o resp.status)

SignupAttempt(resp, endpoint, lastError, username) ==
  IF resp.kind = "neterr" THEN Failed(Str(resp.msg))
  ELSE IF ~Ok(resp)
    THEN IF resp.status = "404" THEN Failed(Str("Not found: " \o endpoint))
         ELSE Failed(SignupErrorMessage(resp, lastError))
  ELSE IF resp.json = "throw" THEN Failed(Str(resp.msg))
  ELSE IF resp.json = "null" THEN Failed(Str(NullReadMessage))
  ELSE Committed(lastError, ExtractToken(resp),
                 CommitUser(ExtractUser(resp), username))

Ops == {"login", "signup"}

Endpoints(op) ==
  IF op = "login"
    THEN <<"/api/auth/token/", "/api/auth/login/", "/api/auth/token/obtain/">>
    ELSE <<"/api/auth/signup/", "/api/auth/register/">>

Attempt(op, resp, endpoint, lastError, username) ==
  IF op = "login" THEN LoginAttempt(resp, endpoint, lastError, username)
  ELSE SignupAttempt(resp, endpoint, lastError, username)

GenericMessage(op) == IF op = "login" THEN "Login failed" ELSE "Signup failed"

\* mutant of Thrown: the generic message is thrown whatever was recorded
ThrownGeneric(op, lastError) == Str(GenericMessage(op))

\* throw new Error(lastError ?? "Login failed"): the message thrown
Thrown(op, lastError) == Coalesce(lastError, Str(GenericMessage(op)))

---------------------------------------------------------------------------
(* localStorage: the two slots (Null: no entry) and how the browser treats *)
(* access to it: "ok", "full" (setItem throws, the quota is exceeded) or   *)
(* "denied" (every access throws).                                         *)

Modes == {"ok", "full", "denied"}

Slots(t, u) == [token |-> t, user |-> u]

\* what the storage can hold when the application starts
StartTokens == {Null, Str("abc123")}
StartUsers == {Null, Str("{oops"), Str(Stringify(Obj("alice")))}

\* mutant of InitToken: the value read is coerced to a string, a missing
\* entry becoming the text "null"
InitTokenCoerced(st, md) == IF md = "denied" THEN Null ELSE Str(JsString(st.token))

\* useState initializer of token: localStorage.getItem(TOKEN_KEY), null on a throw
InitToken(st, md) == IF md = "denied" THEN Null ELSE st.token

\* useState initializer of user: raw ? JSON.parse(raw) : null, null on a throw
InitUser(st, md) ==
  IF md = "denied" THEN Null
  ELSE IF ~Truthy(st.user) THEN Null
  ELSE IF ParseThrows(st.user.s) THEN Null
  ELSE Parse(st.user.s)

\* mutant of TokenEffect: the entry is never removed
TokenEffectNoRemove(slot, tok, md) ==
  IF md = "ok" /\ Truthy(tok) THEN Str(JsString(tok)) ELSE slot

\* the effect on [token]: setItem(TOKEN_KEY, token) or removeItem(TOKEN_KEY)
TokenEffect(slot, tok, md) ==
  IF md = "denied" THEN slot
  ELSE IF Truthy(tok) THEN (IF md = "full" THEN slot ELSE Str(JsString(tok)))
  ELSE Null

\* mutant of UserEffect: the record is stored with String() in place of
\* JSON.stringify()
UserEffectUnserialized(slot, usr, md) ==
  IF md = "denied" THEN slot
  ELSE IF Truthy(usr) THEN (IF md = "full" THEN slot ELSE Str(JsString(usr)))
  ELSE Null

\* the effect on [user]: setItem(USER_KEY, JSON.stringify(user)) or removeItem
UserEffect(slot, usr, md) ==
  IF md = "denied" THEN slot
  ELSE IF Truthy(usr) THEN (IF md = "full" THEN slot ELSE Str(Stringify(usr)))
  ELSE Null

\* a state setter re-renders unless Object.is(new, old): objects are fresh
Changed(new, old) == new.k \in {"obj", "arr"} \/ new # old

---------------------------------------------------------------------------
(* The invocations.  login and signup can be called at any time, also     *)
(* while earlier invocations are pending; calls has a place for each       *)
(* invocation the model follows at a time.  calls[inv] is of operation op  *)
(* and at pc "idle" (the place is free), "await" (suspended in fetch of    *)
(* candidate i), "json" (the response has come, of status `status`;        *)
(* suspended in res.json()), "text" (suspended in res.text()), "resolved"  *)
(* or "rejected" (settled, thrown holding the message).  reqs lists the    *)
(* endpoints it has sent a request to.                                     *)

\* the places for invocations: as many can be pending at a time
Invs == {"c1", "c2"}

Usernames == {"carol"}

IdleCall ==
  [op |-> "none", pc |-> "idle", i |-> 0, status |-> "", lastError |-> Null,
   username |-> "", thrown |-> Null, reqs |-> <<>>]

\* the invocation is suspended in an await
InFlight(c) == c.pc \in {"await", "json", "text"}

\* hist is used by SpecRun alone: the responses one invocation has met
NoHist == [op |-> "none", resps |-> <<>>]

\* form is used by SpecForm alone: the state of the SignIn or SignUp page
\* (error, loading), whether its submit waits for auth.login / auth.signup,
\* and whether nav("/") has been called
NoForm ==
  [op |-> "none", pc |-> "idle", error |-> Null, loading |-> FALSE,
   navigated |-> FALSE]

\* msgs is used by SpecMsgs alone: the state of the Messages page (messages,
\* loading, error), the `mounted` flag of its load effect, where load() is
\* ("none": not started) and the Authorization header its request carries
NoMsgs ==
  [pc |-> "none", mounted |-> FALSE, header |-> Undef, messages |-> "[]",
   loading |-> FALSE, error |-> Null]

\* the state after AuthProvider's first render, its effects not yet run
Init ==
  /\ mode \in Modes
  /\ store \in IF mode = "denied" THEN {Slots(Null, Null)}
               ELSE {Slots(t, u) : t \in StartTokens, u \in StartUsers}
  /\ token = InitToken(store, mode)
  /\ user = InitUser(store, mode)
  /\ pendT = TRUE
  /\ pendU = TRUE
  /\ calls = [inv \in Invs |-> IdleCall]
  /\ origin = "init"
  /\ hist = NoHist
  /\ form = NoForm
  /\ msgs = NoMsgs

\* mutant of Start: the requests to all the candidates are sent at once
StartAllAtOnce(inv, op, username) ==
  /\ calls[inv].pc = "idle"
  /\ calls' = [calls EXCEPT ![inv] =
       [op |-> op, pc |-> "await", i |-> 1, status |-> "",
        lastError |-> Null, username |-> username,
        thrown |-> Null, reqs |-> Endpoints(op)]]
  /\ UNCHANGED <<token, user, store, mode, pendT, pendU, origin>>

\* login(creds) / signup(creds) is called: up to the first await fetch.  The
\* code starts an invocation whenever it is called; that inv is a free place
\* is the bound Invs on the invocations followed at a time, no condition of
\* the code
Start(inv, op, username) ==
  /\ calls[inv].pc = "idle"
  /\ calls' = [calls EXCEPT ![inv] =
       [op |-> op, pc |-> "await", i |-> 1, status |-> "",
        lastError |-> Null, username |-> username,
        thrown |-> Null, reqs |-> <<Endpoints(op)[1]>>]]
  /\ UNCHANGED <<token, user, store, mode, pendT, pendU, origin>>

\* mutant of Settle: the `return` after setUser is missing, so that the loop
\* goes on to the next candidate after a commit
SettleNoReturn(inv, resp) ==
  /\ InFlight(calls[inv])
  /\ LET c == calls[inv]
         op == c.op
         r == Attempt(op, resp, Endpoints(op)[c.i], c.lastError, c.username)
     IN  /\ IF c.i < Len(Endpoints(op))
              THEN calls' = [calls EXCEPT
                     ![inv].pc = "await",
                     ![inv].status = "",
                     ![inv].i = c.i + 1,
                     ![inv].lastError = r.lastError,
                     ![inv].reqs = Append(c.reqs, Endpoints(op)[c.i + 1])]
              ELSE calls' = [calls EXCEPT
                     ![inv].pc = "rejected",
                     ![inv].status = "",
                     ![inv].lastError = r.lastError,
                     ![inv].thrown = Thrown(op, r.lastError)]
         /\ IF r.done
              THEN /\ token' = r.t
                   /\ user' = r.u
                   /\ pendT' = (pendT \/ Changed(r.t, token))
                   /\ pendU' = (pendU \/ Changed(r.u, user))
                   /\ origin' = op
              ELSE UNCHANGED <<token, user, pendT, pendU, origin>>
  /\ UNCHANGED <<store, mode>>

\* mutant of Settle: the try/catch around the pass is missing, so that a
\* rejected fetch escapes the loop and rejects the invocation at once
SettleNoCatch(inv, resp) ==
  /\ InFlight(calls[inv])
  /\ LET c == calls[inv]
         op == c.op
         r == Attempt(op, resp, Endpoints(op)[c.i], c.lastError, c.username)
     IN  IF r.done
           THEN /\ token' = r.t
                /\ user' = r.u
                /\ pendT' = (pendT \/ Changed(r.t, token))
                /\ pendU' = (pendU \/ Changed(r.u, user))
                /\ origin' = op
                /\ calls' = [calls EXCEPT ![inv].pc = "resolved", ![inv].status = ""]
           ELSE /\ IF c.i < Len(Endpoints(op)) /\ resp.kind # "neterr"
                     THEN calls' = [calls EXCEPT
                            ![inv].pc = "await",
                            ![inv].status = "",
                            ![inv].i = c.i + 1,
                            ![inv].lastError = r.lastError,
                            ![inv].reqs = Append(c.reqs, Endpoints(op)[c.i + 1])]
                     ELSE calls' = [calls EXCEPT
                            ![inv].pc = "rejected",
                            ![inv].status = "",
                            ![inv].lastError = r.lastError,
                            ![inv].thrown = Thrown(op, r.lastError)]
                /\ UNCHANGED <<token, user, pendT, pendU, origin>>
  /\ UNCHANGED <<store, mode>>

\* mutant of Settle: an invocation that runs out of candidates clears the
\* session before it throws
SettleClearsOnReject(inv, resp) ==
  /\ InFlight(calls[inv])
  /\ LET c == calls[inv]
         op == c.op
         r == Attempt(op, resp, Endpoints(op)[c.i], c.lastError, c.username)
     IN  IF r.done
           THEN /\ token' = r.t
                /\ user' = r.u
                /\ pendT' = (pendT \/ Changed(r.t, token))
                /\ pendU' = (pendU \/ Changed(r.u, user))
                /\ origin' = op
                /\ calls' = [calls EXCEPT ![inv].pc = "resolved", ![inv].status = ""]
           ELSE IF c.i < Len(Endpoints(op))
             THEN /\ calls' = [calls EXCEPT
                       ![inv].pc = "await",
                       ![inv].status = "",
                       ![inv].i = c.i + 1,
                       ![inv].lastError = r.lastError,
                       ![inv].reqs = Append(c.reqs, Endpoints(op)[c.i + 1])]
                  /\ UNCHANGED <<token, user, pendT, pendU, origin>>
             ELSE /\ calls' = [calls EXCEPT
                       ![inv].pc = "rejected",
                       ![inv].status = "",
                       ![inv].lastError = r.lastError,
                       ![inv].thrown = Thrown(op, r.lastError)]
                  /\ token' = Null
                  /\ user' = Null
                  /\ pendT' = (pendT \/ Changed(Null, token))
                  /\ pendU' = (pendU \/ Changed(Null, user))
                  /\ UNCHANGED origin
  /\ UNCHANGED <<store, mode>>

\* mutant of Settle: the commit suspends between setToken and setUser, and
\* the step ends with the token alone set
SettleTokenFirst(inv, resp) ==
  /\ InFlight(calls[inv])
  /\ LET c == calls[inv]
         op == c.op
         r == Attempt(op, resp, Endpoints(op)[c.i], c.lastError, c.username)
     IN  IF r.done
           THEN /\ token' = r.t
                /\ pendT' = (pendT \/ Changed(r.t, token))
                /\ origin' = op
                /\ calls' = [calls EXCEPT ![inv].pc = "resolved", ![inv].status = ""]
                /\ UNCHANGED <<user, pendU>>
           ELSE /\ IF c.i < Len(Endpoints(op))
                     THEN calls' = [calls EXCEPT
                            ![inv].pc = "await",
                            ![inv].status = "",
                            ![inv].i = c.i + 1,
                            ![inv].lastError = r.lastError,
                            ![inv].reqs = Append(c.reqs, Endpoints(op)[c.i + 1])]
                     ELSE calls' = [calls EXCEPT
                            ![inv].pc = "rejected",
                            ![inv].status = "",
                            ![inv].lastError = r.lastError,
                            ![inv].thrown = Thrown(op, r.lastError)]
                /\ UNCHANGED <<token, user, pendT, pendU, origin>>
  /\ UNCHANGED <<store, mode>>

\* mutant of Settle: when the fetch of the last candidate is rejected, the
\* loop starts over at the first candidate
SettleStartsOver(inv, resp) ==
  /\ InFlight(calls[inv])
  /\ LET c == calls[inv]
         op == c.op
         r == Attempt(op, resp, Endpoints(op)[c.i], c.lastError, c.username)
     IN  IF r.done
           THEN /\ token' = r.t
                /\ user' = r.u
                /\ pendT' = (pendT \/ Changed(r.t, token))
                /\ pendU' = (pendU \/ Changed(r.u, user))
                /\ origin' = op
                /\ calls' = [calls EXCEPT ![inv].pc = "resolved", ![inv].status = ""]
           ELSE /\ IF c.i < Len(Endpoints(op))
                     THEN calls' = [calls EXCEPT
                            ![inv].pc = "await",
                            ![inv].status = "",
                            ![inv].i = c.i + 1,
                            ![inv].lastError = r.lastError,
                            ![inv].reqs = Append(c.reqs, Endpoints(op)[c.i + 1])]
                     ELSE IF resp.kind = "neterr"
                       THEN calls' = [calls EXCEPT
                              ![inv].pc = "await",
                              ![inv].status = "",
                              ![inv].i = 1,
                              ![inv].lastError = r.lastError,
                              ![inv].reqs = <<Endpoints(op)[1]>>]
                       ELSE calls' = [calls EXCEPT
                              ![inv].pc = "rejected",
                              ![inv].status = "",
                              ![inv].lastError = r.lastError,
                              ![inv].thrown = Thrown(op, r.lastError)]
                /\ UNCHANGED <<token, user, pendT, pendU, origin>>
  /\ UNCHANGED <<store, mode>>

\* the last await of candidate i's pass settles, resp being the response as
\* the pass has read it: the rest of the pass, then setToken and setUser and
\* return, or the next fetch, or the throw
Settle(inv, resp) ==
  /\ InFlight(calls[inv])
  /\ LET c == calls[inv]
         op == c.op
         r == Attempt(op, resp, Endpoints(op)[c.i], c.lastError, c.username)
     IN  IF r.done
           THEN /\ token' = r.t
                /\ user' = r.u
                /\ pendT' = (pendT \/ Changed(r.t, token))
                /\ pendU' = (pendU \/ Changed(r.u, user))
                /\ origin' = op
                /\ calls' = [calls EXCEPT ![inv].pc = "resolved", ![inv].status = ""]
           ELSE /\ IF c.i < Len(Endpoints(op))
                     THEN calls' = [calls EXCEPT
                            ![inv].pc = "await",
                            ![inv].status = "",
                            ![inv].i = c.i + 1,
                            ![inv].lastError = r.lastError,
                            ![inv].reqs = Append(c.reqs, Endpoints(op)[c.i + 1])]
                     ELSE calls' = [calls EXCEPT
                            ![inv].pc = "rejected",
                            ![inv].status = "",
                            ![inv].lastError = r.lastError,
                            ![inv].thrown = Thrown(op, r.lastError)]
                /\ UNCHANGED <<token, user, pendT, pendU, origin>>
  /\ UNCHANGED <<store, mode>>

\* no await is left in the pass once the one it is suspended in settles: a
\* rejected fetch and a 404 are not read; a success body and an error body
\* that is a JSON object are read by res.json() alone
PassEnds(c, resp) ==
  CASE c.pc = "await" -> resp.kind = "neterr" \/ resp.status = "404"
    [] c.pc = "json" -> Ok(resp) \/ resp.json = "obj"
    [] OTHER -> TRUE

\* resp is a response the suspended pass can be reading: one of the status
\* that has come, and for res.text() one whose body res.json() did not give
\* an object for
Reading(c, resp) ==
  \/ c.pc = "await"
  \/ /\ c.pc = "json"
     /\ resp.kind = "http" /\ resp.status = c.status
  \/ /\ c.pc = "text"
     /\ resp.kind = "http" /\ resp.status = c.status
     /\ resp.json # "obj"

\* the pass is suspended again, in the await that follows
NextAwait(inv, pc, status) ==
  /\ calls' = [calls EXCEPT ![inv].pc = pc, ![inv].status = status]
  /\ UNCHANGED <<token, user, store, mode, pendT, pendU, origin>>

\* await fetch(endpoint) settles: with a rejection or a 404 the pass ends;
\* otherwise it goes on to await res.json()
FetchSettles(inv, resp) ==
  /\ calls[inv].pc = "await"
  /\ IF PassEnds(calls[inv], resp) THEN Settle(inv, resp)
     ELSE NextAwait(inv, "json", resp.status)

\* await res.json() settles: the pass ends unless it is an error body that is
\* no JSON object, for which it goes on to await res.text()
JsonSettles(inv, resp) ==
  /\ calls[inv].pc = "json"
  /\ Reading(calls[inv], resp)
  /\ IF PassEnds(calls[inv], resp) THEN Settle(inv, resp)
     ELSE NextAwait(inv, "text", resp.status)

\* await res.text() settles: the pass ends
TextSettles(inv, resp) ==
  /\ calls[inv].pc = "text"
  /\ Reading(calls[inv], resp)
  /\ Settle(inv, resp)

\* the caller takes the settled promise
Return(inv) ==
  /\ calls[inv].pc \in {"resolved", "rejected"}
  /\ calls' = [calls EXCEPT ![inv] = IdleCall]
  /\ UNCHANGED <<token, user, store, mode, pendT, pendU, origin>>

\* mutant of LogoutOf: setUser(null) is missing
LogoutTokenOnly(tok, usr, pT, pU) ==
  [token |-> Null, user |-> usr, pendT |-> (pT \/ Changed(Null, tok)), pendU |-> pU]

\* logout(): setToken(null); setUser(null)
LogoutOf(tok, usr, pT, pU) ==
  [token |-> Null, user |-> Null,
   pendT |-> (pT \/ Changed(Null, tok)), pendU |-> (pU \/ Changed(Null, usr))]

\* mutant of Logout: it also aborts the invocations in flight
LogoutAborts ==
  /\ LET r == LogoutOf(token, user, pendT, pendU)
     IN  /\ token' = r.token
         /\ user' = r.user
         /\ pendT' = r.pendT
         /\ pendU' = r.pendU
  /\ origin' = "logout"
  /\ calls' = [inv \in Invs |-> IF InFlight(calls[inv]) THEN IdleCall ELSE calls[inv]]
  /\ UNCHANGED <<store, mode>>

Logout ==
  /\ LET r == LogoutOf(token, user, pendT, pendU)
     IN  /\ token' = r.token
         /\ user' = r.user
         /\ pendT' = r.pendT
         /\ pendU' = r.pendU
  /\ origin' = "logout"
  /\ UNCHANGED <<store, mode, calls>>

\* mutant of RunEffects: the effects lack their try/catch, so that a storage
\* access that throws unmounts AuthProvider and its session is lost
RunEffectsUncaught ==
  /\ pendT \/ pendU
  /\ store' = Slots(IF pendT THEN TokenEffect(store.token, token, mode) ELSE store.token,
                    IF pendU THEN UserEffect(store.user, user, mode) ELSE store.user)
  /\ pendT' = FALSE
  /\ pendU' = FALSE
  /\ IF mode = "ok" THEN UNCHANGED <<token, user>>
     ELSE token' = Null /\ user' = Null
  /\ UNCHANGED <<mode, calls, origin>>

\* React runs the effects whose dependency changed, the token's first
RunEffects ==
  /\ pendT \/ pendU
  /\ store' = Slots(IF pendT THEN TokenEffect(store.token, token, mode) ELSE store.token,
                    IF pendU THEN UserEffect(store.user, user, mode) ELSE store.user)
  /\ pendT' = FALSE
  /\ pendU' = FALSE
  /\ UNCHANGED <<token, user, mode, calls, origin>>

\* the page is loaded again: AuthProvider is constructed from the storage,
\* and the invocations of the old page are gone
Reload ==
  /\ token' = InitToken(store, mode)
  /\ user' = InitUser(store, mode)
  /\ pendT' = TRUE
  /\ pendU' = TRUE
  /\ calls' = [inv \in Invs |-> IdleCall]
  /\ origin' = "init"
  /\ UNCHANGED <<store, mode>>

\* the responses the session-level specification draws from: a failure that
\* ends a pass at its first await (a 404, known once the fetch settles), one
\* that ends it at its last (a 500 whose body is not JSON: the pass reads it
\* as JSON and then as text), and the success bodies, whose pass ends when
\* the body is read, that differ in the token and user committed
SessionAccessVals == {Undef, Str(""), Str("abc123"), Num("7")}
SessionUserVals == {Undef, False}

Responses ==
  {NotFound, ErrText("throw", Undef)}
    \cup {OkObj(a, Undef, Undef, Obj("alice"), Undef) : a \in SessionAccessVals}
    \cup {OkObj(Str("abc123"), Undef, Undef, us, Undef) : us \in SessionUserVals}

Next ==
  \/ \E inv \in Invs, op \in Ops, n \in Usernames :
       Start(inv, op, n) /\ UNCHANGED <<hist, form, msgs>>
  \/ \E inv \in Invs, resp \in Responses :
       FetchSettles(inv, resp) /\ UNCHANGED <<hist, form, msgs>>
  \/ \E inv \in Invs, resp \in Responses :
       JsonSettles(inv, resp) /\ UNCHANGED <<hist, form, msgs>>
  \/ \E inv \in Invs, resp \in Responses :
       TextSettles(inv, resp) /\ UNCHANGED <<hist, form, msgs>>
  \/ \E inv \in Invs : Return(inv) /\ UNCHANGED <<hist, form, msgs>>
  \/ Logout /\ UNCHANGED <<hist, form, msgs>>
  \/ RunEffects /\ UNCHANGED <<hist, form, msgs>>
  \/ Reload /\ UNCHANGED <<hist, form, msgs>>

Spec == Init /\ [][Next]_vars

---------------------------------------------------------------------------
(* One invocation, observed: hist.op is called once on an anonymous        *)
(* session, and hist.resps lists what its passes have ended with, so that  *)
(* hist.resps[k] is the response of candidate k as its pass read it.       *)

\* the place of the observed invocation
RunInv == "c1"

RunResponses == FailResponses \cup OkResponses

InitRun ==
  /\ mode = "ok"
  /\ store = Slots(Null, Null)
  /\ token = Null
  /\ user = Null
  /\ pendT = TRUE
  /\ pendU = TRUE
  /\ calls = [inv \in Invs |-> IdleCall]
  /\ origin = "init"
  /\ hist \in {[op |-> o, resps |-> <<>>] : o \in Ops}
  /\ form = NoForm
  /\ msgs = NoMsgs

StartRun ==
  /\ \E n \in Usernames : Start(RunInv, hist.op, n)
  /\ UNCHANGED <<hist, form, msgs>>

\* an await of the invocation settles; a response is listed when its pass ends
SettleRun ==
  \E resp \in RunResponses :
    /\ \/ FetchSettles(RunInv, resp)
       \/ JsonSettles(RunInv, resp)
       \/ TextSettles(RunInv, resp)
    /\ hist' = IF PassEnds(calls[RunInv], resp)
                THEN [hist EXCEPT !.resps = Append(@, resp)]
                ELSE hist
    /\ UNCHANGED <<form, msgs>>

NextRun == StartRun \/ SettleRun

SpecRun == InitRun /\ [][NextRun]_vars

---------------------------------------------------------------------------
(* One page life with every request settling: the session-level actions    *)
(* without the page load, from an anonymous session, under the assumption  *)
(* that the network settles each fetch and each body read an invocation    *)
(* waits for.                                                              *)

InitLive ==
  /\ mode = "ok"
  /\ store = Slots(Null, Null)
  /\ token = Null
  /\ user = Null
  /\ pendT = TRUE
  /\ pendU = TRUE
  /\ calls = [inv \in Invs |-> IdleCall]
  /\ origin = "init"
  /\ hist = NoHist
  /\ form = NoForm
  /\ msgs = NoMsgs

\* the responses the pages' specification draws from: every kind of failure,
\* a success body with a token and a user, and one with neither
FormResponses ==
  {NetErr, NotFound, ErrObj(Str("invalid credentials"), Undef), OkBad("null"),
   ErrText("throw", Undef),
   OkObj(Str("abc123"), Undef, Undef, Obj("alice"), Undef),
   OkObj(Undef, Undef, Undef, Undef, Undef)}

\* the responses drawn here: a fetch that rejects, a 404, a failure whose pass
\* goes through all its awaits, and a success body
LiveResponses ==
  {NetErr, NotFound, ErrText("throw", Undef),
   OkObj(Str("abc123"), Undef, Undef, Obj("alice"), Undef)}

\* the await the invocation at inv is suspended in settles, in one way or
\* another
Settles(inv) ==
  \E resp \in LiveResponses :
    /\ \/ FetchSettles(inv, resp)
       \/ JsonSettles(inv, resp)
       \/ TextSettles(inv, resp)
    /\ UNCHANGED <<hist, form, msgs>>

NextLive ==
  \/ \E inv \in Invs, op \in Ops, n \in Usernames :
       Start(inv, op, n) /\ UNCHANGED <<hist, form, msgs>>
  \/ \E inv \in Invs : Settles(inv)
  \/ \E inv \in Invs : Return(inv) /\ UNCHANGED <<hist, form, msgs>>
  \/ Logout /\ UNCHANGED <<hist, form, msgs>>
  \/ RunEffects /\ UNCHANGED <<hist, form, msgs>>

\* every fetch and every body read that is awaited is eventually settled
NetworkSettles == \A inv \in Invs : WF_vars(Settles(inv))

SpecLive == InitLive /\ [][NextLive]_vars /\ NetworkSettles

---------------------------------------------------------------------------
(* The SignIn and SignUp pages: form.op is the operation the page calls    *)
(* ("login" for SignIn, "signup" for SignUp).  submit runs up to its await *)
(* of auth.login / auth.signup, and goes on when that promise has settled. *)

\* the place of the invocation the page's submit started
FormInv == "c1"

InitForm ==
  /\ mode = "ok"
  /\ store = Slots(Null, Null)
  /\ token = Null
  /\ user = Null
  /\ pendT = TRUE
  /\ pendU = TRUE
  /\ calls = [inv \in Invs |-> IdleCall]
  /\ origin = "init"
  /\ hist = NoHist
  /\ form \in {[NoForm EXCEPT !.op = o] : o \in Ops}
  /\ msgs = NoMsgs

\* mutant of SubmitResume: nav("/") stands after the try statement, so that
\* the page navigates whether the call resolved or rejected
SubmitResumeNavAlways(f, call) ==
  IF call.pc = "resolved"
    THEN [f EXCEPT !.pc = "idle", !.navigated = TRUE, !.loading = FALSE]
    ELSE [f EXCEPT !.pc = "idle", !.navigated = TRUE, !.loading = FALSE,
                   !.error = Coalesce(call.thrown, Str("Error"))]

\* submit after its await: nav("/") when the call resolved; otherwise
\* setError(err?.message ?? String(err)), err being the Error thrown, whose
\* message is a string; setLoading(false) in either case
SubmitResume(f, call) ==
  IF call.pc = "resolved"
    THEN [f EXCEPT !.pc = "idle", !.navigated = TRUE, !.loading = FALSE]
    ELSE [f EXCEPT !.pc = "idle", !.loading = FALSE,
                   !.error = Coalesce(call.thrown, Str("Error"))]

\* the form is submitted (its button is disabled while loading, and the page
\* is left once it has navigated): setError(null); setLoading(true); the call
Submit(username) ==
  /\ form.pc = "idle"
  /\ ~form.loading
  /\ ~form.navigated
  /\ Start(FormInv, form.op, username)
  /\ form' = [form EXCEPT !.pc = "waiting", !.error = Null, !.loading = TRUE]

\* the awaited call has settled: submit goes on to its end
Resume ==
  /\ form.pc = "waiting"
  /\ calls[FormInv].pc \in {"resolved", "rejected"}
  /\ form' = SubmitResume(form, calls[FormInv])
  /\ Return(FormInv)

NextForm ==
  \/ \E n \in Usernames : Submit(n) /\ UNCHANGED <<hist, msgs>>
  \/ \E resp \in FormResponses :
       FetchSettles(FormInv, resp) /\ UNCHANGED <<hist, form, msgs>>
  \/ \E resp \in FormResponses :
       JsonSettles(FormInv, resp) /\ UNCHANGED <<hist, form, msgs>>
  \/ \E resp \in FormResponses :
       TextSettles(FormInv, resp) /\ UNCHANGED <<hist, form, msgs>>
  \/ Resume /\ UNCHANGED <<hist, msgs>>
  \/ Logout /\ UNCHANGED <<hist, form, msgs>>
  \/ RunEffects /\ UNCHANGED <<hist, form, msgs>>

SpecForm == InitForm /\ [][NextForm]_vars

---------------------------------------------------------------------------
(* The Messages page: its load effect runs once when the page mounts, with *)
(* the session token of that render; load() awaits fetch("/api/messages")  *)
(* and then res.json(); the effect's cleanup clears `mounted`.             *)

\* what fetch("/api/messages") settles with: a rejection, or a status
MsgFetchOutcomes ==
  {[kind |-> "neterr", status |-> "0", msg |-> "Failed to fetch"],
   [kind |-> "http", status |-> "401", msg |-> ""],
   [kind |-> "http", status |-> "500", msg |-> ""],
   [kind |-> "http", status |-> "200", msg |-> ""]}

\* what res.json() settles with: a rejection, an array, another JSON value
MsgJsonOutcomes ==
  {[kind |-> "throw", msg |-> "Unexpected token"],
   [kind |-> "array", msg |-> ""],
   [kind |-> "other", msg |-> ""]}

\* tok = auth.token ?? null; if (tok) headers["Authorization"] = `Bearer ${tok}`
\* (Undef: the request carries no Authorization header)
AuthHeader(tok) ==
  LET t == Coalesce(tok, Null)
  IN  IF Truthy(t) THEN Str("Bearer " \o JsString(t)) ELSE Undef

\* mutant of LoadCatch: the catch and finally blocks do not test `mounted`
LoadCatchUnguarded(m, message) ==
  [m EXCEPT !.pc = "done", !.error = Str(message), !.loading = FALSE]

\* load(), an error thrown in the try block: the catch block and the finally
LoadCatch(m, message) ==
  IF ~m.mounted THEN [m EXCEPT !.pc = "done"]
  ELSE [m EXCEPT !.pc = "done", !.error = Str(message), !.loading = FALSE]

\* load(), res.json() gave data: setMessages(Array.isArray(data) ? data : [])
\* and the finally block
LoadData(m, kind) ==
  IF ~m.mounted THEN [m EXCEPT !.pc = "done"]
  ELSE [m EXCEPT !.pc = "done", !.loading = FALSE,
                 !.messages = IF kind = "array" THEN "data" ELSE "[]"]

\* the page mounts: the effect sets mounted and calls load(), which runs up
\* to its await of fetch
Mount ==
  /\ msgs.pc = "none"
  /\ msgs' = [msgs EXCEPT !.pc = "fetch", !.mounted = TRUE, !.loading = TRUE,
                          !.error = Null, !.header = AuthHeader(token)]
  /\ UNCHANGED <<token, user, store, mode, pendT, pendU, calls, origin>>

\* fetch settles: a rejection or an unsuccessful status is thrown
\* (`HTTP ${res.status}`), a successful response goes on to res.json()
MsgFetchSettles(o) ==
  /\ msgs.pc = "fetch"
  /\ msgs' = IF o.kind = "neterr" THEN LoadCatch(msgs, o.msg)
             ELSE IF o.status # "200" THEN LoadCatch(msgs, "HTTP " \o o.status)
             ELSE [msgs EXCEPT !.pc = "json"]
  /\ UNCHANGED <<token, user, store, mode, pendT, pendU, calls, origin>>

\* res.json() settles
MsgJsonSettles(o) ==
  /\ msgs.pc = "json"
  /\ msgs' = IF o.kind = "throw" THEN LoadCatch(msgs, o.msg)
             ELSE LoadData(msgs, o.kind)
  /\ UNCHANGED <<token, user, store, mode, pendT, pendU, calls, origin>>

\* the page unmounts: the cleanup of the effect
Unmount ==
  /\ msgs.pc # "none"
  /\ msgs.mounted
  /\ msgs' = [msgs EXCEPT !.mounted = FALSE]
  /\ UNCHANGED <<token, user, store, mode, pendT, pendU, calls, origin>>

\* the page opens on any session AuthProvider can start with, a stored
\* token that is the empty string included
MsgStartTokens == StartTokens \cup {Str("")}

InitMsgs ==
  /\ mode \in Modes
  /\ store \in IF mode = "denied" THEN {Slots(Null, Null)}
               ELSE {Slots(t, u) : t \in MsgStartTokens, u \in StartUsers}
  /\ token = InitToken(store, mode)
  /\ user = InitUser(store, mode)
  /\ pendT = TRUE
  /\ pendU = TRUE
  /\ calls = [inv \in Invs |-> IdleCall]
  /\ origin = "init"
  /\ hist = NoHist
  /\ form = NoForm
  /\ msgs = NoMsgs

NextMsgs ==
  \/ Mount /\ UNCHANGED <<hist, form>>
  \/ \E o \in MsgFetchOutcomes : MsgFetchSettles(o) /\ UNCHANGED <<hist, form>>
  \/ \E o \in MsgJsonOutcomes : MsgJsonSettles(o) /\ UNCHANGED <<hist, form>>
  \/ Unmount /\ UNCHANGED <<hist, form>>
  \/ Logout /\ UNCHANGED <<hist, form, msgs>>
  \/ RunEffects /\ UNCHANGED <<hist, form, msgs>>

SpecMsgs == InitMsgs /\ [][NextMsgs]_vars

---------------------------------------------------------------------------
(* Claims about one invocation, checked under SpecRun *)

\* the invocation SpecRun observes, and the number of its settled candidates
RunCall == calls[RunInv]
NSettled == Len(hist.resps)

\* the message candidate k's pass records by itself (Null: it records none)
Recorded(k) ==
  Attempt(hist.op, hist.resps[k], Endpoints(hist.op)[k], Null,
          RunCall.username).lastError

\* the most recent message recorded by candidates 1..k (Null: none was)
RECURSIVE LastRecorded(_)
LastRecorded(k) ==
  IF k = 0 THEN Null
  ELSE IF Recorded(k) # Null THEN Recorded(k)
  ELSE LastRecorded(k - 1)

\* candidate k won: the invocation resolved there, having sent requests to
\* candidates 1..k alone, and committed the token and user of its response
WonAt(k) ==
  /\ RunCall.pc = "resolved"
  /\ RunCall.i = k
  /\ RunCall.reqs = SubSeq(Endpoints(hist.op), 1, k)
  /\ token = ExtractToken(hist.resps[k])
  /\ user = CommitUser(ExtractUser(hist.resps[k]), RunCall.username)

\* C1 as stated: once a candidate of login or signup returns a successful
\* response whose body parses as JSON, the invocation commits the token and
\* user of that response and sends no request to a later candidate; if it is
\* the first candidate, exactly one request is sent.
C1_AnyParseableBodyWins ==
  \A k \in 1..NSettled :
    (hist.resps[k].status = "200" /\ hist.resps[k].json # "throw") => WonAt(k)

\* C1 amended: once a candidate of login or signup returns a successful
\* response whose body parses to a JSON value other than null, the invocation
\* commits the token and user of that response and sends no request to a
\* later candidate; if it is the first candidate, exactly one request is sent.
C1_ObjectBodyWins ==
  \A k \in 1..NSettled :
    (hist.resps[k].status = "200" /\ hist.resps[k].json = "obj") => WonAt(k)

\* C1 witness: login resolved at its second candidate after a first failure
C1_Witness ==
  /\ hist.op = "login"
  /\ NSettled = 2
  /\ hist.resps[1].status = "404"
  /\ RunCall.pc = "resolved"
  /\ Len(RunCall.reqs) = 2
  /\ token = Str("abc123")
  /\ user = Obj("alice")

\* C3 as stated: when a candidate of login or signup that is not the last
\* returns 404, the invocation goes on to the next candidate, and the message
\* "Not found: <that endpoint>" is not the message of the error it throws.
C3_EarlyNotFoundIsNotFinal ==
  \A k \in 1..NSettled :
    (hist.resps[k].status = "404" /\ k < Len(Endpoints(hist.op))) =>
       /\ Len(RunCall.reqs) > k
       /\ RunCall.pc = "rejected" =>
            RunCall.thrown # Str("Not found: " \o Endpoints(hist.op)[k])

\* C4: when every login candidate has failed, login rejects with the most
\* recently recorded failure message, and with "Login failed" exactly when no
\* candidate recorded a message.
C4_LoginThrowsLastRecorded ==
  (hist.op = "login" /\ RunCall.pc = "rejected") =>
     /\ NSettled = 3
     /\ RunCall.thrown =
          (IF LastRecorded(3) = Null THEN Str("Login failed") ELSE LastRecorded(3))
     /\ (RunCall.thrown = Str("Login failed")) <=> (LastRecorded(3) = Null)

\* C4 witness: login rejected with the message of its first candidate, the
\* two later candidates having recorded none
C4_Witness ==
  /\ hist.op = "login"
  /\ RunCall.pc = "rejected"
  /\ RunCall.thrown = Str("invalid credentials")
  /\ Recorded(2) = Null
  /\ Recorded(3) = Null

\* C10 as stated: for every candidate response, a pass of signup records the
\* error message, or commits the token and user, that a pass of login does
\* for the same response.
C10_SignupPassIsLoginPass ==
  [][(hist.op = "signup" /\ Len(hist'.resps) = NSettled + 1) =>
       LET r == hist'.resps[NSettled + 1]
           c == RunCall
           l == LoginAttempt(r, Endpoints("signup")[c.i], c.lastError, c.username)
       IN  IF l.done
             THEN calls'[RunInv].pc = "resolved" /\ token' = l.t /\ user' = l.u
             ELSE /\ calls'[RunInv].pc # "resolved"
                  /\ calls'[RunInv].lastError = l.lastError]_vars

\* candidate k answered with a success body that is a JSON object
Succeeded(k) == hist.resps[k].status = "200" /\ hist.resps[k].json = "obj"

\* C11 as stated: the user committed for a success response is its user
\* field if it has one (and it is not null); otherwise {username: <response
\* username>} if the response has a username field; otherwise {username:
\* <submitted username>}.
C11_UserFromFieldsPresent ==
  \A k \in 1..NSettled :
    Succeeded(k) =>
      LET r == hist.resps[k]
      IN  user = (IF ~Nullish(r.user) THEN r.user
                  ELSE IF r.username # Undef THEN Obj(r.username.s)
                  ELSE Obj(RunCall.username))

\* C11 amended: the user committed for a success response is its user field
\* if that is neither missing nor null; otherwise {username: <response
\* username>} if the response's username is truthy (not missing, not empty);
\* otherwise {username: <submitted username>}, which is what a response with
\* a token and neither user nor username gives.
C11_UserFromUsableFields ==
  \A k \in 1..NSettled :
    Succeeded(k) =>
      LET r == hist.resps[k]
      IN  /\ user = (IF ~Nullish(r.user) THEN r.user
                      ELSE IF Truthy(r.username) THEN Obj(r.username.s)
                      ELSE Obj(RunCall.username))
          /\ (r.user = Undef /\ r.username = Undef) => user = Obj(RunCall.username)

\* C11 witness: a success response with a null user and the username "bob"
\* committed {username: "bob"}, not the submitted "carol"
C11_Witness ==
  /\ NSettled = 1
  /\ Succeeded(1)
  /\ hist.resps[1].user = Null
  /\ hist.resps[1].username = Str("bob")
  /\ RunCall.username = "carol"
  /\ user = Obj("bob")

\* C12: the token committed for a success response is the value of the first
\* of its fields access, token, auth_token that is present (neither missing
\* nor null); when none is, the token is set to null and the invocation
\* still resolves, throwing nothing.
C12_TokenIsFirstPresent ==
  \A k \in 1..NSettled :
    Succeeded(k) =>
      LET r == hist.resps[k]
      IN  /\ RunCall.pc = "resolved"
          /\ RunCall.thrown = Null
          /\ token = (IF ~Nullish(r.access) THEN r.access
                       ELSE IF ~Nullish(r.token) THEN r.token
                       ELSE IF ~Nullish(r.auth_token) THEN r.auth_token
                       ELSE Null)
          /\ (Nullish(r.access) /\ Nullish(r.token) /\ Nullish(r.auth_token))
                => token = Null

\* C12 witness: a success response without access, with token and auth_token,
\* committed the value of token
C12_Witness ==
  /\ NSettled = 1
  /\ Succeeded(1)
  /\ hist.resps[1].access = Undef
  /\ hist.resps[1].token = Str("tok2")
  /\ hist.resps[1].auth_token = Str("tok3")
  /\ RunCall.pc = "resolved"
  /\ token = Str("tok2")

\* C13 as stated: when a login candidate returns an unsuccessful response
\* other than 404, the message recorded is the body's detail if it has one,
\* otherwise its non_field_errors in JSON form if it has them, otherwise the
\* whole parsed body in JSON form, and the raw text of the body if the body
\* is not JSON; when the candidate is the last, that message is thrown.
C13_LoginErrorMessageAsStated ==
  (/\ hist.op = "login"
   /\ NSettled > 0
   /\ hist.resps[NSettled].kind = "http"
   /\ hist.resps[NSettled].status \notin {"200", "404"})
    => LET r == hist.resps[NSettled]
           m == RunCall.lastError
       IN  /\ r.json = "obj" =>
                 m = (IF Truthy(r.detail) THEN Str(JsString(r.detail))
                      ELSE IF Truthy(r.nfe) THEN Str(Stringify(r.nfe))
                      ELSE Str(StringifyBody(r)))
           /\ r.json = "null" => m = Str("null")
           /\ r.json = "throw" =>
                 /\ m.k = "str"
                 /\ r.text.k = "str" => m = r.text
           /\ NSettled = 3 => (RunCall.pc = "rejected" /\ RunCall.thrown = m)

\* C14: the requests an invocation has sent go to the candidates in list
\* order, to each at most once; the request to the next candidate is sent
\* only when every earlier request has settled, so that at most one request
\* is outstanding: exactly one while the invocation waits, none once it has
\* settled.
C14_OneRequestAtATime ==
  LET n == Len(RunCall.reqs)
  IN  /\ n <= Len(Endpoints(hist.op))
      /\ RunCall.reqs = SubSeq(Endpoints(hist.op), 1, n)
      /\ \A a, b \in 1..n : a # b => RunCall.reqs[a] # RunCall.reqs[b]
      /\ n = NSettled \/ n = NSettled + 1
      /\ InFlight(RunCall) => (n = NSettled + 1 /\ RunCall.i = n)
      /\ RunCall.pc \in {"idle", "resolved", "rejected"} => n = NSettled

\* C14 witness: login waits for its third candidate, the requests to the
\* first two having settled
C14_Witness ==
  /\ hist.op = "login"
  /\ RunCall.pc = "await"
  /\ NSettled = 2
  /\ hist.resps[1].kind = "neterr"
  /\ hist.resps[2].status = "400"
  /\ RunCall.reqs = Endpoints("login")

\* candidate k failed: a rejected fetch, a 404, another unsuccessful
\* response, or a success response whose body is no JSON object
FailedAt(k) == ~Succeeded(k)

\* C15: login and signup reject only when every candidate of the list has
\* been tried and has failed; whatever the failure of a candidate that is
\* not the last, the invocation neither rejects nor stops there but sends
\* the request to the next candidate.
C15_OnlyExhaustionRejects ==
  /\ RunCall.pc = "rejected" =>
        /\ NSettled = Len(Endpoints(hist.op))
        /\ RunCall.reqs = Endpoints(hist.op)
        /\ \A k \in 1..NSettled : FailedAt(k)
  /\ \A k \in 1..NSettled :
        (FailedAt(k) /\ k < Len(Endpoints(hist.op))) =>
           /\ Len(RunCall.reqs) > k
           /\ RunCall.reqs[k + 1] = Endpoints(hist.op)[k + 1]
           /\ (k = NSettled => InFlight(RunCall))

\* C15 witness: signup rejected after a rejected fetch at its first candidate
\* and an unreadable error body at its second
C15_Witness ==
  /\ hist.op = "signup"
  /\ RunCall.pc = "rejected"
  /\ NSettled = 2
  /\ hist.resps[1].kind = "neterr"
  /\ hist.resps[2].status = "500"
  /\ hist.resps[2].text = Undef
  /\ RunCall.thrown = Str(BodyUsedMessage)

---------------------------------------------------------------------------
(* Claims about the session and its storage, checked under Spec *)

\* a token or user is present when the code's tests of it (if (token),
\* if (user), if (tok)) pass
Present(v) == Truthy(v)

\* the effects have run since the last change, and the storage took the writes
Persisted == ~pendT /\ ~pendU /\ mode = "ok"

\* no effect has run since AuthProvider was constructed: store is what it read
FreshStart == origin = "init" /\ pendT /\ pendU

\* what the storage coercions leave of a token and of a user
StoredToken(tok) == IF Truthy(tok) THEN Str(JsString(tok)) ELSE Null
StoredUser(usr) == IF Truthy(usr) THEN usr ELSE Null

\* C2 as stated: after any login, signup or logout call the session has the
\* token and the user both present or both absent.
C2_NeverPartial ==
  origin # "init" => (Present(token) <=> Present(user))

\* C5: logout() in any session state leaves token and user absent, sends no
\* request and touches no invocation or storage entry itself, and a second
\* logout() right after it changes nothing.
C5_LogoutClearsIdempotently ==
  [][Logout =>
       /\ token' = Null
       /\ user' = Null
       /\ calls' = calls
       /\ store' = store
       /\ LogoutOf(token', user', pendT', pendU') =
            [token |-> token', user |-> user', pendT |-> pendT', pendU |-> pendU']]_vars

\* C5 witness: logout has cleared an authenticated, persisted session while a
\* login was in flight
C5_Witness ==
  /\ origin = "logout"
  /\ token = Null
  /\ user = Null
  /\ pendT
  /\ pendU
  /\ store.token = Str("abc123")
  /\ store.user # Null
  /\ \E inv \in Invs : calls[inv].op = "login" /\ InFlight(calls[inv])

\* C6 as stated: after a successful login and the persistence writes,
\* initializing the session from the two slots gives the same token and the
\* same user record that the login committed.
C6_ReloadReproducesExactly ==
  (origin = "login" /\ Persisted) =>
     /\ InitToken(store, mode) = token
     /\ InitUser(store, mode) = user

\* C6 amended: after a successful login and the persistence writes (storage
\* writes succeeding), initializing the session from the two slots gives the
\* committed token if it is a non-empty string, its string form if it is
\* another truthy value and absent if it is falsy; and the committed user
\* record if it is truthy, absent if it is falsy.
C6_ReloadReproducesStored ==
  (origin = "login" /\ Persisted) =>
     /\ InitToken(store, mode) = StoredToken(token)
     /\ InitUser(store, mode) = StoredUser(user)
     /\ (token.k = "str" /\ token.s # "") => InitToken(store, mode) = token
     /\ token = Null => InitToken(store, mode) = Null
     /\ Truthy(user) => InitUser(store, mode) = user

\* C6 witness: a login committed a string token and a user record, and both
\* were persisted
C6_Witness ==
  /\ origin = "login"
  /\ Persisted
  /\ token = Str("abc123")
  /\ user = Obj("alice")
  /\ store = Slots(Str("abc123"), Str("{\"username\":\"alice\"}"))

\* the slots follow the session: an entry for a present value, none otherwise
Lockstep ==
  /\ store.token = (IF Present(token) THEN Str(JsString(token)) ELSE Null)
  /\ store.user = (IF Present(user) THEN Str(Stringify(user)) ELSE Null)

\* C7 as stated: after login, signup and logout calls, once the persistence
\* triggers have run (storage writes succeeding), each slot holds the session's
\* value iff it is present, and the session is re-derivable from the slots.
C7_LockstepAndRederivable ==
  (origin # "init" /\ Persisted) =>
     /\ Lockstep
     /\ InitToken(store, mode) = token
     /\ InitUser(store, mode) = user

\* C7 amended: once the persistence triggers have run (storage writes
\* succeeding), the token slot holds the string form of the session token iff
\* the token is present (no entry otherwise), the user slot holds the
\* serialized session user iff the user is present (no entry otherwise), and
\* the slots re-derive the session up to these coercions: a present token as
\* its string form, a present user as itself, an absent one as null.
C7_LockstepUpToCoercion ==
  Persisted =>
     /\ Lockstep
     /\ InitToken(store, mode) = StoredToken(token)
     /\ InitUser(store, mode) = StoredUser(user)

\* C7 witness: a signup's session was persisted, then a logout's removal of
\* both entries
C7_Witness ==
  /\ origin = "logout"
  /\ Persisted
  /\ store = Slots(Null, Null)
  /\ \E inv \in Invs : calls[inv].op = "signup" /\ calls[inv].pc = "resolved"

\* C8 as stated: when the storage at startup has absent or corrupt data (a
\* missing key, an unparseable user record, or access throwing), the session
\* after initialization is anonymous.
C8_CorruptStartIsAnonymous ==
  (/\ FreshStart
   /\ \/ mode = "denied"
      \/ store.token = Null
      \/ store.user = Null
      \/ ParseThrows(store.user.s))
    => (~Present(token) /\ ~Present(user))

\* C9: initialization with neither auth_token nor auth_user in the storage
\* gives an anonymous session, token and user both null.
C9_EmptyStartIsAnonymous ==
  (FreshStart /\ mode # "denied" /\ store = Slots(Null, Null)) =>
     (token = Null /\ user = Null)

\* C9 witness: the session initialized from an empty, readable storage
C9_Witness ==
  /\ FreshStart
  /\ mode = "ok"
  /\ store = Slots(Null, Null)
  /\ token = Null
  /\ user = Null

\* the step is a commit of the invocation at inv: it was suspended and has
\* resolved
CommitStepOf(inv) == InFlight(calls[inv]) /\ calls'[inv].pc = "resolved"

\* the step loads the page again
ReloadStep ==
  /\ origin' = "init"
  /\ pendT' /\ pendU'
  /\ calls' = [inv \in Invs |-> IdleCall]

\* what an invocation of username n commits for the success response resp
CommitOf(resp, n) ==
  [token |-> ExtractToken(resp), user |-> CommitUser(ExtractUser(resp), n)]

\* C16: overlapping login, signup and logout calls commit last-write-wins.
\* No step other than a page load takes an invocation in flight away: it
\* waits or settles, whatever the others and logout do.  A commit overwrites
\* the session with its own token and user whatever the session held, and
\* becomes the last writer; and once the persistence effects have run
\* (storage writes succeeding) both slots hold what the last writer left in
\* the session, an entry for a present value and none otherwise.
C16_LastWriteWins ==
  /\ [][\A inv \in Invs :
          /\ (InFlight(calls[inv]) /\ ~ReloadStep) =>
                /\ calls'[inv].pc \in {"await", "json", "text", "resolved", "rejected"}
                /\ calls'[inv].op = calls[inv].op
                /\ calls'[inv].username = calls[inv].username
                /\ calls'[inv].i >= calls[inv].i
          /\ CommitStepOf(inv) =>
                /\ origin' = calls[inv].op
                /\ \E resp \in Responses :
                      /\ Ok(resp)
                      /\ token' = CommitOf(resp, calls[inv].username).token
                      /\ user' = CommitOf(resp, calls[inv].username).user
                /\ \A o \in Invs \ {inv} : calls'[o] = calls[o]]_vars
  /\ [](origin = "logout" => (token = Null /\ user = Null))
  /\ [](Persisted => Lockstep)

\* C16 witness: two logins overlapped; one committed, then logout cleared the
\* session while the other was reading the body of its second response; that
\* one is still pending and both slots are empty
C16_Witness ==
  /\ origin = "logout"
  /\ calls["c1"].op = "login"
  /\ calls["c1"].pc = "resolved"
  /\ calls["c2"].op = "login"
  /\ calls["c2"].pc = "json"
  /\ calls["c2"].i = 2
  /\ token = Null
  /\ user = Null
  /\ Persisted
  /\ store = Slots(Null, Null)

\* the step runs the persistence effects
EffectsStep == (pendT \/ pendU) /\ ~pendT' /\ ~pendU'

\* C17: when storage accesses throw (writes when the storage is full, every
\* access when it is denied), initialization still ends with a session, the
\* anonymous one when nothing can be read; a commit of login or signup still
\* puts its token and user in the session; and running the persistence
\* effects changes neither the session nor any invocation, only the write
\* being lost, so that the session keeps the committed value afterwards.
C17_StorageFailuresSwallowed ==
  /\ [][mode # "ok" =>
          /\ EffectsStep =>
                /\ token' = token /\ user' = user
                /\ calls' = calls /\ origin' = origin
                /\ store'.token \in {store.token, Null}
                /\ store'.user \in {store.user, Null}
                /\ mode = "denied" => store' = store
          /\ \A inv \in Invs :
                CommitStepOf(inv) =>
                  \E resp \in Responses :
                    /\ Ok(resp)
                    /\ token' = CommitOf(resp, calls[inv].username).token
                    /\ user' = CommitOf(resp, calls[inv].username).user]_vars
  /\ []((mode = "denied" /\ FreshStart) => (token = Null /\ user = Null))
  /\ []((mode # "ok" /\ origin \in Ops /\ ~pendT /\ ~pendU) =>
          \E resp \in Responses, n \in Usernames :
            Ok(resp) /\ token = CommitOf(resp, n).token /\ user = CommitOf(resp, n).user)

\* C17 witness: with the storage full, a login committed its token and user,
\* the effects ran and wrote nothing, and the session still holds the commit
C17_Witness ==
  /\ mode = "full"
  /\ origin = "login"
  /\ ~pendT /\ ~pendU
  /\ token = Str("abc123")
  /\ user = Obj("alice")
  /\ store = Slots(Null, Null)

\* the step is a failed pass of the invocation at inv: it was suspended, and
\* it goes on to its next candidate or rejects
FailStepOf(inv) ==
  /\ InFlight(calls[inv])
  /\ \/ calls'[inv].pc = "await" /\ calls'[inv].i = calls[inv].i + 1
     \/ calls'[inv].pc = "rejected"

\* the step takes the invocation at inv from one await of a pass to the next
SuspendStepOf(inv) ==
  /\ InFlight(calls[inv])
  /\ calls'[inv].pc \in {"json", "text"}
  /\ calls'[inv].pc # calls[inv].pc

\* C18: no failed pass of login or signup, the rejecting one included, and
\* no step between the awaits of a pass changes the session token, the
\* session user, a storage slot or what the persistence effects have to
\* write; the session changes only in a commit of login or signup, in
\* logout (to null and null) and when the page is loaded.
C18_FailureChangesNothing ==
  [][(\A inv \in Invs :
        (FailStepOf(inv) \/ SuspendStepOf(inv)) =>
          (/\ token' = token /\ user' = user
           /\ store' = store
           /\ pendT' = pendT /\ pendU' = pendU
           /\ origin' = origin))
     /\ ((token' # token \/ user' # user) =>
           (\/ \E inv \in Invs : CommitStepOf(inv) /\ origin' = calls[inv].op
            \/ origin' = "logout" /\ token' = Null /\ user' = Null
            \/ ReloadStep))]_vars

\* C18 witness: the session read from the storage at startup is still there,
\* persisted and untouched, after a login ran out of candidates
C18_Witness ==
  /\ origin = "init"
  /\ Persisted
  /\ token = Str("abc123")
  /\ user = Obj("alice")
  /\ store = Slots(Str("abc123"), Str(Stringify(Obj("alice"))))
  /\ calls["c1"].op = "login"
  /\ calls["c1"].pc = "rejected"
  /\ calls["c1"].thrown = Str("Not found: /api/auth/token/obtain/")

\* the session is the pair one commit writes
OneCommit ==
  \E resp \in Responses, n \in Usernames :
    Ok(resp) /\ token = CommitOf(resp, n).token /\ user = CommitOf(resp, n).user

\* C19: under every interleaving of login, signup and logout the token and
\* the user of the session come from one writer.  Every step that changes
\* one of them writes both: a commit writes the token and the user of one
\* response, logout writes null and null, a page load the two values read
\* from the storage.  So between steps the session is the pair its last
\* writer wrote: the initial pair, one commit's pair, or null and null.
C19_NeverMixed ==
  /\ [][(token' # token \/ user' # user) =>
          \/ \E inv \in Invs, resp \in Responses :
                /\ CommitStepOf(inv)
                /\ Ok(resp)
                /\ token' = CommitOf(resp, calls[inv].username).token
                /\ user' = CommitOf(resp, calls[inv].username).user
                /\ origin' = calls[inv].op
          \/ /\ origin' = "logout"
             /\ token' = Null /\ user' = Null
          \/ /\ ReloadStep
             /\ token' = InitToken(store, mode)
             /\ user' = InitUser(store, mode)]_vars
  /\ [](FreshStart => (token = InitToken(store, mode) /\ user = InitUser(store, mode)))
  /\ [](origin \in Ops => OneCommit)

\* C19 witness: a login and a signup have both committed, the signup last,
\* and the session is the signup's pair
C19_Witness ==
  /\ calls["c1"].op = "login"
  /\ calls["c1"].pc = "resolved"
  /\ calls["c2"].op = "signup"
  /\ calls["c2"].pc = "resolved"
  /\ origin = "signup"
  /\ token = Num("7")
  /\ user = Obj("alice")

---------------------------------------------------------------------------
(* Termination, checked under SpecLive *)

\* C20: if every fetch and every body read an invocation waits for settles,
\* an invocation of login (signup) that is pending eventually resolves or
\* rejects, and it has then sent at most 3 (2) requests; it never sends more.
C20_InvocationTerminates ==
  /\ \A inv \in Invs :
        InFlight(calls[inv]) ~> (calls[inv].pc \in {"resolved", "rejected"})
  /\ [](\A inv \in Invs :
          calls[inv].pc # "idle" =>
            /\ Len(calls[inv].reqs) <= Len(Endpoints(calls[inv].op))
            /\ InFlight(calls[inv]) => calls[inv].i = Len(calls[inv].reqs))

\* C20 witness: a login has rejected after its three requests while a signup
\* has resolved at its second
C20_Witness ==
  /\ calls["c1"].op = "login"
  /\ calls["c1"].pc = "rejected"
  /\ Len(calls["c1"].reqs) = 3
  /\ calls["c2"].op = "signup"
  /\ calls["c2"].pc = "resolved"
  /\ Len(calls["c2"].reqs) = 2

---------------------------------------------------------------------------
(* Claims about the pages, checked under SpecForm and SpecMsgs *)

\* the step submits the form; the step ends submit after the call settled
SubmitStep == form.pc = "idle" /\ form'.pc = "waiting"
ResumeStep == form.pc = "waiting" /\ form'.pc = "idle"

\* C21: submitting the SignIn / SignUp form sets loading and clears the
\* error and starts the call; when the call has settled, the form navigates
\* to "/" iff the call resolved, shows the thrown message and does not
\* navigate if it rejected, and has loading false either way; while the
\* call is pending the form is loading and has not navigated, and no other
\* step changes the form.
C21_FormFollowsCall ==
  /\ [][(SubmitStep =>
            /\ form'.loading
            /\ form'.error = Null
            /\ calls'[FormInv].op = form.op
            /\ calls'[FormInv].pc = "await")
         /\ (ResumeStep =>
               /\ ~form'.loading
               /\ form'.navigated <=> calls[FormInv].pc = "resolved"
               /\ calls[FormInv].pc = "rejected" =>
                    /\ form'.error = calls[FormInv].thrown
                    /\ Truthy(form'.error)
                    /\ ~form'.navigated
               /\ calls[FormInv].pc = "resolved" => form'.error = Null)
         /\ ((~SubmitStep /\ ~ResumeStep) => form' = form)]_vars
  /\ [](form.pc = "waiting" => (form.loading /\ ~form.navigated /\ form.error = Null))
  /\ [](form.pc = "idle" => ~form.loading)

\* C21 witness: the SignIn form after a rejected login shows its message,
\* is not loading and has not navigated
C21_Witness ==
  /\ form.op = "login"
  /\ form.pc = "idle"
  /\ form.error = Str("invalid credentials")
  /\ ~form.loading
  /\ ~form.navigated
  /\ token = Null

\* the step mounts the Messages page and sends its request
MountStep == msgs.pc = "none" /\ msgs'.pc = "fetch"

\* C22: the request of the Messages page carries the header Authorization:
\* Bearer <token> iff the session token is present when the page mounts,
\* and keeps it whatever the session does later; and once the page is
\* unmounted with its load still pending, no later step, the settling of
\* the request included, changes its messages, error or loading.
C22_HeaderAndLateResult ==
  /\ [][(MountStep =>
            /\ msgs'.header # Undef <=> Present(token)
            /\ Present(token) => msgs'.header = Str("Bearer " \o token.s))
         /\ (~MountStep => msgs'.header = msgs.header)
         /\ ((msgs.pc # "none" /\ (~msgs.mounted \/ ~msgs'.mounted)) =>
               /\ msgs'.messages = msgs.messages
               /\ msgs'.error = msgs.error
               /\ msgs'.loading = msgs.loading)]_vars
  /\ []((msgs.pc \in {"fetch", "json"}) => (msgs.loading /\ msgs.error = Null))

\* C22 witness: the page mounted on a session with a token and was unmounted
\* before its request failed; it still shows loading, no error, no message
C22_Witness ==
  /\ msgs.pc = "done"
  /\ ~msgs.mounted
  /\ msgs.header = Str("Bearer abc123")
  /\ msgs.loading
  /\ msgs.error = Null
  /\ msgs.messages = "[]"

=============================================================================
